---- MODULE Spec2Model ----
(***************************************************************************)
(* Verification model of the GenXSOP forecast core:                        *)
(*   - ForecastJobService      (backend/app/services/forecast_job_service) *)
(*   - ForecastConsensusService(.../forecast_consensus_service)            *)
(*   - ForecastAdvisorService  (.../forecast_advisor_service)              *)
(*   - ForecastService         (.../forecast_service)                      *)
(* The committed database content is the shared state; every database      *)
(* statement / commit of a handler is one atomic step, so handlers running *)
(* in different sessions (request threads, pool workers) interleave at     *)
(* exactly those points.                                                   *)
(***************************************************************************)
EXTENDS Integers, Sequences, FiniteSets, TLC

NULL == "null"
\* A NULL DateTime column.
NoTime == -1
\* A DateTime column that has been stamped, for columns whose value no
\* modelled operation reads back (started_at).
Stamped == 0

\* ------------------------------------------------------------------------
\* Bounds of the model
\* ------------------------------------------------------------------------
MaxJobs == 2
MaxClock == 2
MaxConsensus == 2
MaxVersion == 2
MaxRuns == 2          \* generate_forecast calls
MaxMonths == 4        \* months of demand history
MaxHorizon == 2       \* forecast horizon in months
MaxHistoryLen == 25   \* rows of the frame handed to a strategy
MaxAhead == 6         \* horizon of a direct strategy call

\* ------------------------------------------------------------------------
\* Program constants
\* ------------------------------------------------------------------------
max_workers == 2
RetentionDays == 1

VARIABLES
  jobs,        \* forecast_jobs table: job_id -> row, or NoRow
  nextJob,     \* number of job ids handed out so far (uuid4 never repeats)
  queue,       \* ThreadPoolExecutor work queue of submitted job ids
  wpc,         \* per pool worker: position inside _run_forecast_job
  wjob,        \* per pool worker: job_id argument of the running task
  invoked,     \* job ids for which generate_forecast has been called
  cancelReq,   \* in-flight cancel_job call: job row it loaded, or NoReq
  cleanupReq,  \* in-flight cleanup_old_jobs call: counted rows, or NoReq
  now,         \* datetime.utcnow(), in days
  consensus,   \* forecast_consensus table: id -> row, or NoRow
  nextCons,    \* number of forecast_consensus ids handed out so far
  demand_plans,\* demand_plans table: product_id -> row for the period, or NoRow
  req,         \* per database session: the consensus call in flight
  resp,        \* what the consensus step just taken returned to its caller, if anything
  synced,      \* consensus ids whose approval has been written to a demand plan
  advIn,       \* arguments and environment of one ForecastAdvisorService.recommend_model call
  advOut,      \* the ForecastAdvisorDecision it returned, or NoDecision
  history,     \* months of demand actuals recorded for the product
  forecasts,   \* committed rows of the forecasts table
  audits,      \* runs that have a committed forecast_run_audit row
  events,      \* per run: how many ForecastGeneratedEvents it published, and the last one
  runs,        \* per generate_forecast call: position and locals
  nextRun,     \* number of generate_forecast calls started
  lastWriter,  \* per (model, period): what the insert that committed last wrote
  genIn,       \* arguments and environment of one generation: request, history, libraries
  genOut       \* what that generation returned: points, diagnostics, audit columns

jobVars == <<jobs, nextJob, queue, wpc, wjob, invoked, cancelReq, cleanupReq, now>>
consVars == <<consensus, nextCons, demand_plans, req, resp, synced>>

advVars == <<advIn, advOut>>

fcVars == <<history, forecasts, audits, events, runs, nextRun, lastWriter>>

genVars == <<genIn, genOut>>

vars == <<jobVars, consVars, advVars, fcVars, genVars>>

\* What a step of one component leaves alone.
notJobVars == <<consVars, advVars, fcVars, genVars>>
notConsVars == <<jobVars, advVars, fcVars, genVars>>
notAdvVars == <<jobVars, consVars, fcVars, genVars>>
notFcVars == <<jobVars, consVars, advVars, genVars>>
notGenVars == <<jobVars, consVars, advVars, fcVars>>

\* ========================================================================
\* Job scheduler
\* ========================================================================
JobIds == 1..MaxJobs
Workers == 1..max_workers
NoRow == [status |-> "absent"]
NoReq == [job_id |-> 0]

JobStatuses == {"queued", "running", "completed", "failed", "cancelled"}

\* Parameter sets a caller passes to enqueue_forecast.
JobParams ==
  { [product_id |-> 1, horizon |-> 1, model_type |-> NULL, requested_by |-> 1],
    [product_id |-> 2, horizon |-> 3, model_type |-> "arima", requested_by |-> 2] }

ForecastJob(p) ==
  [status |-> "queued", product_id |-> p.product_id, horizon |-> p.horizon,
   model_type |-> p.model_type, requested_by |-> p.requested_by,
   error |-> NULL, result_json |-> NULL, started_at |-> NoTime, completed_at |-> NoTime]

\* enqueue_forecast without its executor.submit: the row is committed and
\* nothing is handed to the pool.
enqueue_forecast_NoSubmit(p) ==
  /\ nextJob < MaxJobs
  /\ nextJob = 0 => p.product_id = 1
  /\ nextJob' = nextJob + 1
  /\ jobs' = [jobs EXCEPT ![nextJob + 1] = ForecastJob(p)]
  /\ UNCHANGED <<queue, wpc, wjob, invoked, cancelReq, cleanupReq, now>>
  /\ UNCHANGED notJobVars

\* enqueue_forecast: insert the row, commit, submit to the pool.  No code
\* of the scheduler looks at the parameters, so the parameter sets are
\* interchangeable and the first job takes the first one.
enqueue_forecast(p) ==
  /\ nextJob < MaxJobs
  /\ nextJob = 0 => p.product_id = 1
  /\ nextJob' = nextJob + 1
  /\ jobs' = [jobs EXCEPT ![nextJob + 1] = ForecastJob(p)]
  /\ queue' = Append(queue, nextJob + 1)
  /\ UNCHANGED <<wpc, wjob, invoked, cancelReq, cleanupReq, now>>
  /\ UNCHANGED notJobVars

\* cancel_job, first statement: SELECT the row (line 80).  Unknown id: None.
cancel_job_load(j) ==
  /\ cancelReq = NoReq
  /\ IF jobs[j] # NoRow
     THEN cancelReq' = [job_id |-> j, status |-> jobs[j].status]
     ELSE UNCHANGED cancelReq
  /\ UNCHANGED <<jobs, nextJob, queue, wpc, wjob, invoked, cleanupReq, now>>
  /\ UNCHANGED notJobVars

\* cancel_job, lines 83-89: decide on the loaded status, UPDATE and commit.
\* An UPDATE of a row that has been deleted meanwhile changes nothing.
cancel_job_commit ==
  /\ cancelReq # NoReq
  /\ LET j == cancelReq.job_id IN
       IF cancelReq.status \in {"queued", "running"} /\ jobs[j] # NoRow
       THEN jobs' = [jobs EXCEPT ![j].status = "cancelled",
                                    ![j].completed_at = now,
                                    ![j].error = "Cancelled by user"]
       ELSE UNCHANGED jobs
  /\ cancelReq' = NoReq
  /\ UNCHANGED <<nextJob, queue, wpc, wjob, invoked, cleanupReq, now>>
  /\ UNCHANGED notJobVars

\* Statuses retry_job accepts, with completed added.
RetryableStatuses_WithCompleted == {"failed", "cancelled", "completed"}

\* Statuses retry_job accepts (line 99).
RetryableStatuses == {"failed", "cancelled"}

\* retry_job: an unknown id returns None and any other status returns the
\* source job, both without a write; from failed/cancelled a new row with
\* the source's parameters is inserted, committed and submitted.
retry_job(j) ==
  /\ IF jobs[j] # NoRow /\ jobs[j].status \in RetryableStatuses
     THEN /\ nextJob < MaxJobs
          /\ nextJob' = nextJob + 1
          /\ jobs' = [jobs EXCEPT ![nextJob + 1] = ForecastJob(jobs[j])]
          /\ queue' = Append(queue, nextJob + 1)
     ELSE UNCHANGED <<jobs, nextJob, queue>>
  /\ UNCHANGED <<wpc, wjob, invoked, cancelReq, cleanupReq, now>>
  /\ UNCHANGED notJobVars

\* Rows matched by the cleanup query (lines 172-177).
Removable(cutoff) ==
  { j \in JobIds : /\ jobs[j] # NoRow
                   /\ jobs[j].status \in {"completed", "failed", "cancelled"}
                   /\ jobs[j].completed_at # NoTime
                   /\ jobs[j].completed_at < cutoff }

\* cleanup_old_jobs, lines 166-178: cutoff = utcnow() - days, query.count().
cleanup_count ==
  /\ cleanupReq = NoReq
  /\ cleanupReq' = [job_id |-> -1, cutoff |-> now - RetentionDays,
                    to_delete |-> Cardinality(Removable(now - RetentionDays))]
  /\ UNCHANGED <<jobs, nextJob, queue, wpc, wjob, invoked, cancelReq, now>>
  /\ UNCHANGED notJobVars

\* cleanup_old_jobs, lines 179-195: query.delete(), commit, publish.
cleanup_delete ==
  /\ cleanupReq # NoReq
  /\ jobs' = [j \in JobIds |-> IF j \in Removable(cleanupReq.cutoff) THEN NoRow ELSE jobs[j]]
  /\ cleanupReq' = NoReq
  /\ UNCHANGED <<nextJob, queue, wpc, wjob, invoked, cancelReq, now>>
  /\ UNCHANGED notJobVars

\* _run_forecast_job, lines 200-206: a free pool thread takes the next task
\* and SELECTs the row; no row or status 'cancelled' ends the task.  The
\* pool threads are interchangeable, so the lowest-numbered free one is taken.
run_load(w) ==
  /\ wpc[w] = "idle"
  /\ \A v \in Workers : v < w => wpc[v] # "idle"
  /\ queue # <<>>
  /\ queue' = Tail(queue)
  /\ LET j == Head(queue) IN
       IF jobs[j] = NoRow \/ jobs[j].status = "cancelled"
       THEN UNCHANGED <<wpc, wjob>>
       ELSE /\ wpc' = [wpc EXCEPT ![w] = "loaded"]
            /\ wjob' = [wjob EXCEPT ![w] = j]
  /\ UNCHANGED <<jobs, nextJob, invoked, cancelReq, cleanupReq, now>>
  /\ UNCHANGED notJobVars

\* _run_forecast_job, lines 208-218: UPDATE status='running', commit, then
\* call ForecastService.generate_forecast.  The UPDATE is keyed by the row id
\* only; if the row is gone the flush fails and the task ends.
run_start(w) ==
  /\ wpc[w] = "loaded"
  /\ LET j == wjob[w] IN
       IF jobs[j] = NoRow
       THEN /\ wpc' = [wpc EXCEPT ![w] = "idle"]
            /\ wjob' = [wjob EXCEPT ![w] = 0]
            /\ UNCHANGED <<jobs, invoked>>
       ELSE /\ jobs' = [jobs EXCEPT ![j].status = "running", ![j].started_at = Stamped]
            /\ invoked' = invoked \cup {j}
            /\ wpc' = [wpc EXCEPT ![w] = "executing"]
            /\ UNCHANGED wjob
  /\ UNCHANGED <<nextJob, queue, cancelReq, cleanupReq, now>>
  /\ UNCHANGED notJobVars

\* The task ending after generate_forecast returned, without its write-back.
run_complete_LeavesRunning(w) ==
  /\ wpc[w] = "executing"
  /\ wpc' = [wpc EXCEPT ![w] = "idle"]
  /\ wjob' = [wjob EXCEPT ![w] = 0]
  /\ UNCHANGED <<jobs, nextJob, queue, invoked, cancelReq, cleanupReq, now>>
  /\ UNCHANGED notJobVars

\* _run_forecast_job, lines 219-240: generate_forecast returned; write-back.
run_complete(w) ==
  /\ wpc[w] = "executing"
  /\ LET j == wjob[w] IN
       IF jobs[j] = NoRow
       THEN UNCHANGED jobs
       ELSE jobs' = [jobs EXCEPT ![j].status = "completed",
                                    ![j].error = NULL,
                                    ![j].result_json = "payload",
                                    ![j].completed_at = now]
  /\ wpc' = [wpc EXCEPT ![w] = "idle"]
  /\ wjob' = [wjob EXCEPT ![w] = 0]
  /\ UNCHANGED <<nextJob, queue, invoked, cancelReq, cleanupReq, now>>
  /\ UNCHANGED notJobVars

\* The except branch without its write-back: the task just ends.
run_fail_NoWriteBack(w) ==
  /\ wpc[w] = "executing"
  /\ wpc' = [wpc EXCEPT ![w] = "idle"]
  /\ wjob' = [wjob EXCEPT ![w] = 0]
  /\ UNCHANGED <<jobs, nextJob, queue, invoked, cancelReq, cleanupReq, now>>
  /\ UNCHANGED notJobVars

\* _run_forecast_job, lines 241-247: generate_forecast raised; write-back.
run_fail(w) ==
  /\ wpc[w] = "executing"
  /\ LET j == wjob[w] IN
       IF jobs[j] = NoRow
       THEN UNCHANGED jobs
       ELSE jobs' = [jobs EXCEPT ![j].status = "failed",
                                    ![j].error = "exc",
                                    ![j].completed_at = now]
  /\ wpc' = [wpc EXCEPT ![w] = "idle"]
  /\ wjob' = [wjob EXCEPT ![w] = 0]
  /\ UNCHANGED <<nextJob, queue, invoked, cancelReq, cleanupReq, now>>
  /\ UNCHANGED notJobVars

\* Passage of time (datetime.utcnow() advances by a day).
Tick ==
  /\ now < MaxClock
  /\ now' = now + 1
  /\ UNCHANGED <<jobs, nextJob, queue, wpc, wjob, invoked, cancelReq, cleanupReq>>
  /\ UNCHANGED notJobVars

IdleJobs ==
  /\ jobs = [j \in JobIds |-> NoRow]
  /\ nextJob = 0
  /\ queue = <<>>
  /\ wpc = [w \in Workers |-> "idle"]
  /\ wjob = [w \in Workers |-> 0]
  /\ invoked = {}
  /\ cancelReq = NoReq
  /\ cleanupReq = NoReq
  /\ now = 0

\* ========================================================================
\* Consensus workflow
\* ========================================================================
ConsIds == 1..MaxConsensus
Sessions == {1, 2}
\* Quantities are Decimals counted in thousandths (0.10 is 100); a
\* Numeric(12, 2) column keeps whole cents, the multiples of QtyScale.
QtyScale == 10
\* A NULL Numeric column / an Optional[Decimal] that is None.
NullQty == -1000
NoCall == [op |-> "idle"]
NoResp == [op |-> "none", outcome |-> "none"]

\* forecast_run_audits rows present in the database: id -> product_id
\* (two forecast runs of product 1).
RunAudits == [a \in {1, 2} |-> 1]
\* The one planning period of the model.
Period == 1

ConsensusStatuses == {"draft", "proposed", "approved", "frozen"}

Min(a, b) == IF a <= b THEN a ELSE b

\* ForecastConsensusService._d: None -> Decimal(default), else the value.
_d(value) == IF value = NullQty THEN 0 ELSE value

\* ForecastConsensusService._compute_final: <<pre, final>>.
_compute_final(baseline_qty, sales_override_qty, marketing_uplift_qty, finance_adjustment_qty, constraint_cap_qty) ==
  LET sum == baseline_qty + sales_override_qty + marketing_uplift_qty + finance_adjustment_qty
      pre == IF sum < 0 THEN 0 ELSE sum
      capped == IF constraint_cap_qty # NullQty THEN Min(pre, constraint_cap_qty) ELSE pre
      final == IF capped < 0 THEN 0 ELSE capped
  IN <<pre, final>>

\* A Decimal as a Numeric(12, 2) column stores it: rounded to the cent
\* (half away from zero), NULL kept.
Quantize(x) ==
  IF x = NullQty THEN NullQty
  ELSE LET a == IF x < 0 THEN -x ELSE x
           q == ((2 * a + QtyScale) \div (2 * QtyScale)) * QtyScale
       IN IF x < 0 THEN -q ELSE q

QtyColumns ==
  {"baseline_qty", "sales_override_qty", "marketing_uplift_qty", "finance_adjustment_qty",
   "constraint_cap_qty", "pre_consensus_qty", "final_consensus_qty"}

\* The row as the table holds it after INSERT/UPDATE and refresh.
Stored(row) ==
  [f \in DOMAIN row |-> IF f \in QtyColumns THEN Quantize(row[f]) ELSE row[f]]

\* CHECK constraints of forecast_consensus (models/forecast_consensus.py 27-38).
ConsensusChecksOk(row) ==
  /\ row.baseline_qty >= 0
  /\ row.constraint_cap_qty = NullQty \/ row.constraint_cap_qty >= 0
  /\ row.pre_consensus_qty >= 0
  /\ row.final_consensus_qty >= 0
  /\ row.status \in ConsensusStatuses
  /\ row.version >= 1

\* The table without uq_forecast_consensus_run_period_version.
ConsensusUniqueOk_NoConstraint(c, row) == TRUE

\* uq_forecast_consensus_run_period_version: would row, stored under id c,
\* collide with another stored row?
ConsensusUniqueOk(c, row) ==
  \A d \in ConsIds \ {c} :
    consensus[d] # NoRow =>
      <<consensus[d].forecast_run_audit_id, consensus[d].period, consensus[d].version>>
        # <<row.forecast_run_audit_id, row.period, row.version>>

\* ForecastConsensusRepository.get_latest(period, forecast_run_audit_id):
\* the highest stored version for the run and period, 0 if there is none.
get_latest(period, forecast_run_audit_id) ==
  LET vs == { consensus[d].version : d \in { e \in ConsIds :
                 /\ consensus[e] # NoRow
                 /\ consensus[e].period = period
                 /\ consensus[e].forecast_run_audit_id = forecast_run_audit_id } }
  IN IF vs = {} THEN 0 ELSE CHOOSE v \in vs : \A u \in vs : u <= v

\* The lowest free session runs the next call (sessions are interchangeable).
FreeSession(s) ==
  /\ req[s] = NoCall
  /\ \A t \in Sessions : t < s => req[t] # NoCall

Respond(s, op, outcome) ==
  /\ req' = [req EXCEPT ![s] = NoCall]
  /\ resp' = [op |-> op, outcome |-> outcome]

\* Database content before any consensus call: no consensus rows and no
\* demand plan for the product and period.
IdleCons ==
  /\ consensus = [c \in ConsIds |-> NoRow]
  /\ nextCons = 0
  /\ demand_plans = [p \in {1} |-> NoRow]
  /\ req = [s \in Sessions |-> NoCall]
  /\ resp = NoResp
  /\ synced = {}

\* Request bodies of POST /consensus (ForecastConsensusCreate).
CreateInputs ==
  { [forecast_run_audit_id |-> 1, product_id |-> 1, baseline_qty |-> 100,
     sales_override_qty |-> 50, marketing_uplift_qty |-> 120, finance_adjustment_qty |-> -40,
     constraint_cap_qty |-> 180, status |-> "draft", notes |-> NULL],
    [forecast_run_audit_id |-> 2, product_id |-> 1, baseline_qty |-> 50,
     sales_override_qty |-> 0, marketing_uplift_qty |-> 0, finance_adjustment_qty |-> 0,
     constraint_cap_qty |-> NullQty, status |-> "approved", notes |-> NULL],
    [forecast_run_audit_id |-> 3, product_id |-> 1, baseline_qty |-> 100,
     sales_override_qty |-> 0, marketing_uplift_qty |-> 0, finance_adjustment_qty |-> 0,
     constraint_cap_qty |-> NullQty, status |-> "draft", notes |-> NULL],
    [forecast_run_audit_id |-> 1, product_id |-> 2, baseline_qty |-> 100,
     sales_override_qty |-> 0, marketing_uplift_qty |-> 0, finance_adjustment_qty |-> 0,
     constraint_cap_qty |-> NullQty, status |-> "draft", notes |-> NULL] }

\* Request bodies of PATCH /consensus/{id} (ForecastConsensusUpdate): only
\* the fields that were sent are present (model_dump(exclude_unset=True)).
UpdateInputs ==
  { [status |-> "proposed", constraint_cap_qty |-> NullQty],
    [status |-> "approved"],
    [status |-> "frozen"] }

\* Request bodies that exercise the quantity computation: a binding cap, a
\* negative sum, and quantities with a third decimal (0.104, 0.004).
QtyCreateInputs ==
  { [forecast_run_audit_id |-> 1, product_id |-> 1, baseline_qty |-> 100,
     sales_override_qty |-> 50, marketing_uplift_qty |-> 120, finance_adjustment_qty |-> -40,
     constraint_cap_qty |-> 180, status |-> "draft", notes |-> NULL],
    [forecast_run_audit_id |-> 1, product_id |-> 1, baseline_qty |-> 100,
     sales_override_qty |-> -200, marketing_uplift_qty |-> 0, finance_adjustment_qty |-> 0,
     constraint_cap_qty |-> NullQty, status |-> "draft", notes |-> NULL],
    [forecast_run_audit_id |-> 1, product_id |-> 1, baseline_qty |-> 104,
     sales_override_qty |-> 4, marketing_uplift_qty |-> 4, finance_adjustment_qty |-> 0,
     constraint_cap_qty |-> NullQty, status |-> "draft", notes |-> NULL] }

\* Partial updates: the cap reset to null, one quantity, a negative cap, and
\* notes only.
QtyUpdateInputs ==
  { [constraint_cap_qty |-> NullQty],
    [sales_override_qty |-> -200],
    [constraint_cap_qty |-> -50],
    [notes |-> "n"] }

\* Request bodies of POST /consensus/{id}/approve.
ApproveInputs == { [notes |-> "ok"] }

ApproverId == 7

\* create_consensus, lines 83-123: validate the run, compute, read the
\* latest version, build the row.
create_load(s, data) ==
  /\ FreeSession(s)
  /\ nextCons + Cardinality({t \in Sessions : req[t].op = "create"}) < MaxConsensus
  /\ IF data.forecast_run_audit_id \notin DOMAIN RunAudits
     THEN Respond(s, "create", "not_found")
     ELSE IF RunAudits[data.forecast_run_audit_id] # data.product_id
     THEN Respond(s, "create", "business_rule")
     ELSE LET baseline == _d(data.baseline_qty)
              sales == _d(data.sales_override_qty)
              marketing == _d(data.marketing_uplift_qty)
              finance == _d(data.finance_adjustment_qty)
              cap == IF data.constraint_cap_qty # NullQty
                     THEN _d(data.constraint_cap_qty) ELSE NullQty
              pf == _compute_final(baseline, sales, marketing, finance, cap)
              latest == get_latest(Period, data.forecast_run_audit_id)
              row == [forecast_run_audit_id |-> data.forecast_run_audit_id,
                      product_id |-> data.product_id,
                      period |-> Period,
                      baseline_qty |-> baseline,
                      sales_override_qty |-> sales,
                      marketing_uplift_qty |-> marketing,
                      finance_adjustment_qty |-> finance,
                      constraint_cap_qty |-> cap,
                      pre_consensus_qty |-> pf[1],
                      final_consensus_qty |-> pf[2],
                      status |-> data.status,
                      notes |-> data.notes,
                      version |-> latest + 1,
                      approved_by |-> 0,
                      approved_at |-> NoTime]
          IN /\ req' = [req EXCEPT ![s] = [op |-> "create", row |-> row]]
             /\ resp' = NoResp
  /\ UNCHANGED <<consensus, nextCons, demand_plans, synced>>
  /\ UNCHANGED notConsVars

\* create_consensus, line 124: self._repo.create(row) inserts and commits;
\* the columns keep whole cents and the table constraints reject the
\* insert with an IntegrityError.
create_commit(s) ==
  /\ req[s].op = "create"
  /\ LET row == Stored(req[s].row) IN
       IF ConsensusChecksOk(row) /\ ConsensusUniqueOk(0, row)
       THEN /\ consensus' = [consensus EXCEPT ![nextCons + 1] = row]
            /\ nextCons' = nextCons + 1
            /\ Respond(s, "create", "ok")
       ELSE /\ Respond(s, "create", "integrity_error")
            /\ UNCHANGED <<consensus, nextCons>>
  /\ UNCHANGED <<demand_plans, synced>>
  /\ UNCHANGED notConsVars

\* Value a request body supplies for a field, else the stored one
\* (lines 147-162: `if "f" in payload`).
Supplied(data, f, stored) == IF f \in DOMAIN data THEN data[f] ELSE stored

\* update_consensus, lines 132-178: load the row, guard the status, compute
\* the `updates` dict from the body and the loaded row.
update_load(s, c, data) ==
  /\ FreeSession(s)
  /\ IF consensus[c] = NoRow
     THEN Respond(s, "update", "not_found")
     ELSE IF consensus[c].status \in {"approved", "frozen"}
     THEN Respond(s, "update", "business_rule")
     ELSE IF "status" \in DOMAIN data /\ data.status = "approved"
     THEN Respond(s, "update", "invalid_transition")
     ELSE LET row == consensus[c]
              baseline == _d(Supplied(data, "baseline_qty", row.baseline_qty))
              sales == _d(Supplied(data, "sales_override_qty", row.sales_override_qty))
              marketing == _d(Supplied(data, "marketing_uplift_qty", row.marketing_uplift_qty))
              finance == _d(Supplied(data, "finance_adjustment_qty", row.finance_adjustment_qty))
              capIn == Supplied(data, "constraint_cap_qty", row.constraint_cap_qty)
              cap == IF capIn # NullQty THEN _d(capIn) ELSE NullQty
              pf == _compute_final(baseline, sales, marketing, finance, cap)
              updates == [baseline_qty |-> baseline,
                          sales_override_qty |-> sales,
                          marketing_uplift_qty |-> marketing,
                          finance_adjustment_qty |-> finance,
                          constraint_cap_qty |-> cap,
                          pre_consensus_qty |-> pf[1],
                          final_consensus_qty |-> pf[2],
                          version |-> row.version + 1,
                          status |-> Supplied(data, "status", row.status),
                          notes |-> Supplied(data, "notes", row.notes)]
          IN /\ row.version < MaxVersion
             /\ req' = [req EXCEPT ![s] = [op |-> "update", id |-> c, updates |-> updates,
                                           sets |-> DOMAIN data \cap {"status", "notes"}]]
             /\ resp' = NoResp
  /\ UNCHANGED <<consensus, nextCons, demand_plans, synced>>
  /\ UNCHANGED notConsVars

\* The row after BaseRepository.update(entity, updates): every key of the
\* dict is assigned to the stored row (status and notes only when the body
\* carried them, lines 175-178).
Updated(row, updates, sets) ==
  [f \in DOMAIN row |->
     IF f \in (DOMAIN updates \ {"status", "notes"}) \cup sets THEN updates[f] ELSE row[f]]

\* update_consensus, line 180: self._repo.update(consensus, updates) writes
\* and commits; the unique constraint rejects a duplicate version.
update_commit(s) ==
  /\ req[s].op = "update"
  /\ LET c == req[s].id
         row == Stored(Updated(consensus[c], req[s].updates, req[s].sets))
     IN IF ConsensusChecksOk(row) /\ ConsensusUniqueOk(c, row)
        THEN /\ consensus' = [consensus EXCEPT ![c] = row]
             /\ Respond(s, "update", "ok")
        ELSE /\ Respond(s, "update", "integrity_error")
             /\ UNCHANGED consensus
  /\ UNCHANGED <<nextCons, demand_plans, synced>>
  /\ UNCHANGED notConsVars

\* approve_consensus line 196: f"{notes}\n[Approved] {body.notes}".strip().
ApprovedNotes(notes, body_notes) ==
  LET base == IF notes = NULL THEN "" ELSE notes
  IN IF body_notes = NULL \/ body_notes = "" THEN base
     ELSE IF base = "" THEN "[Approved] " \o body_notes
     ELSE base \o "\n[Approved] " \o body_notes

\* approve_consensus, lines 188-196: load the row, guard the status.
approve_load(s, c, body) ==
  /\ FreeSession(s)
  /\ IF consensus[c] = NoRow
     THEN Respond(s, "approve", "not_found")
     ELSE IF consensus[c].status \in {"approved", "frozen"}
     THEN Respond(s, "approve", "invalid_transition")
     ELSE /\ req' = [req EXCEPT ![s] =
                       [op |-> "approve", id |-> c,
                        notes |-> ApprovedNotes(consensus[c].notes, body.notes)]]
          /\ resp' = NoResp
  /\ UNCHANGED <<consensus, nextCons, demand_plans, synced>>
  /\ UNCHANGED notConsVars

\* approve_consensus, lines 198-206: self._repo.update(...) writes status,
\* approver, timestamp and notes and commits; `result` is the refreshed row.
approve_commit(s) ==
  /\ req[s].op = "approve"
  /\ LET c == req[s].id
         row == [consensus[c] EXCEPT !.status = "approved",
                                     !.approved_by = ApproverId,
                                     !.approved_at = Stamped,
                                     !.notes = req[s].notes]
     IN /\ consensus' = [consensus EXCEPT ![c] = row]
        /\ req' = [req EXCEPT ![s] = [op |-> "sync", id |-> c, result |-> row]]
  /\ resp' = NoResp
  /\ UNCHANGED <<nextCons, demand_plans, synced>>
  /\ UNCHANGED notConsVars

\* approve_consensus, lines 208-235: write-through to the demand plan of the
\* product and period, committed by the demand repository.
approve_sync(s) ==
  /\ req[s].op = "sync"
  /\ LET result == req[s].result
         demand_plan == demand_plans[result.product_id]
     IN IF demand_plan # NoRow
        THEN demand_plans' = [demand_plans EXCEPT ![result.product_id] =
               [demand_plan EXCEPT !.consensus_qty = result.final_consensus_qty,
                                   !.version = demand_plan.version + 1]]
        ELSE demand_plans' = [demand_plans EXCEPT ![result.product_id] =
               [forecast_qty |-> result.baseline_qty,
                consensus_qty |-> result.final_consensus_qty,
                status |-> "draft", version |-> 1]]
  /\ synced' = synced \cup {req[s].id}
  /\ Respond(s, "approve", "ok")
  /\ UNCHANGED <<consensus, nextCons>>
  /\ UNCHANGED notConsVars

\* approve_consensus, lines 208-233 raising: the demand-plan statement fails
\* (database error); the exception leaves approve_consensus.
approve_sync_fails(s) ==
  /\ req[s].op = "sync"
  /\ Respond(s, "approve", "error")
  /\ UNCHANGED <<consensus, nextCons, demand_plans, synced>>
  /\ UNCHANGED notConsVars


\* ========================================================================
\* Model advisor
\* ========================================================================
_supported_models ==
  {"moving_average", "ewma", "exp_smoothing", "seasonal_naive", "arima", "prophet"}

\* model_id of every strategy class in ml/strategies.py.
RegisteredModels == _supported_models \cup {"lstm"}

NoDecision == [recommended_model |-> "none"]

\* Confidence values are kept in hundredths (0.65 -> 65).
Clamp01(x) == IF x < 0 THEN 0 ELSE IF x > 100 THEN 100 ELSE x

\* What runtime.execute(task) of the external recommender can do: raise,
\* return something _extract_json_payload cannot parse, or return a payload
\* (keys may be missing, values are whatever the LLM produced).
LlmReplies ==
  { [kind |-> "raise"], [kind |-> "unparseable"],
    [kind |-> "payload", payload |-> [reason |-> "r"]],
    [kind |-> "payload", payload |-> [recommended_model |-> "arima", confidence |-> 250]],
    [kind |-> "payload", payload |-> [recommended_model |-> "ewma", confidence |-> -5]],
    [kind |-> "payload", payload |-> [recommended_model |-> "bogus", confidence |-> 90]],
    [kind |-> "payload", payload |-> [recommended_model |-> "lstm"]] }

\* _recommend_with_genxai, lines 131-150, on a parsed payload.
_recommend_with_genxai(default_model, payload) ==
  LET named == IF "recommended_model" \in DOMAIN payload
               THEN payload.recommended_model ELSE default_model
      model == IF named \notin _supported_models THEN default_model ELSE named
      confidence == Clamp01(IF "confidence" \in DOMAIN payload THEN payload.confidence ELSE 70)
  IN [recommended_model |-> model, confidence |-> confidence,
      advisor_enabled |-> TRUE, fallback_used |-> FALSE, warnings |-> <<>>,
      consulted |-> TRUE]

\* recommend_model with the external recommender asked first whenever it is
\* configured, the requested model being used only without it.
recommend_model_AdvisorFirst(requested_model, default_model, enabled, llm) ==
  IF enabled /\ llm.kind = "payload"
  THEN _recommend_with_genxai(default_model, llm.payload)
  ELSE [recommended_model |-> IF requested_model \notin {NULL, ""}
                              THEN requested_model ELSE default_model,
        confidence |-> 100,
        advisor_enabled |-> FALSE, fallback_used |-> FALSE, warnings |-> <<>>,
        consulted |-> enabled]

\* ForecastAdvisorService.recommend_model, lines 52-96.  `enabled` is
\* bool(settings.OPENAI_API_KEY); `llm` is what the recommender does if asked.
recommend_model(requested_model, default_model, enabled, llm) ==
  IF requested_model # NULL /\ requested_model # ""
  THEN [recommended_model |-> requested_model, confidence |-> 100,
        advisor_enabled |-> FALSE, fallback_used |-> FALSE, warnings |-> <<>>,
        consulted |-> FALSE]
  ELSE IF ~enabled
  THEN [recommended_model |-> default_model, confidence |-> 65,
        advisor_enabled |-> FALSE, fallback_used |-> TRUE,
        warnings |-> <<"llm_unavailable">>, consulted |-> FALSE]
  ELSE IF llm.kind = "payload"
  THEN _recommend_with_genxai(default_model, llm.payload)
  ELSE [recommended_model |-> default_model, confidence |-> 60,
        advisor_enabled |-> TRUE, fallback_used |-> TRUE,
        warnings |-> <<"advisor_runtime_error">>, consulted |-> TRUE]

RequestedModels == {NULL, ""} \cup RegisteredModels \cup {"bogus"}

NoAdvIn == [requested_model |-> "none"]

IdleAdvisor == advIn = NoAdvIn /\ advOut = NoDecision

\* One call of the advisor on arguments picked by the caller.
advise ==
  /\ advOut = NoDecision
  /\ advOut' = recommend_model(advIn.requested_model, advIn.default_model,
                               advIn.enabled, advIn.llm)
  /\ UNCHANGED advIn
  /\ UNCHANGED notAdvVars

\* ========================================================================
\* Forecast generation (ForecastService.generate_forecast_with_diagnostics)
\* ========================================================================
RunIds == 1..MaxRuns

\* A service that accepts two months of actuals.
MinHistory_Two == 3 - 1

\* recommend_model refuses fewer than this many months of actuals.
MinHistory == 3

ProductId == 1

\* The strategies a run is asked for; NULL lets the service choose.
ForecastModels == {"moving_average", "ewma"}

Horizons == 1..MaxHorizon

ForecastPeriods == (MinHistory + 1)..(MaxMonths + MaxHorizon)

ForecastKeys == ForecastModels \X ForecastPeriods

NoRun == [pc |-> "idle", created |-> 0]

NoWrite == [written |-> FALSE]

\* No ForecastGeneratedEvent published.
NoEvent == [n |-> 0]

\* A call that has returned: its locals are gone, what it committed stays.
Returned(run, pc, error) ==
  [pc |-> pc, error |-> error, model_type |-> NULL, months |-> 0,
   horizon |-> IF pc = "done" THEN run.horizon ELSE 0, i |-> 0, staged |-> {},
   created |-> run.created]

\* The i-th point of context.execute(history_df, horizon): the month after
\* the last actual plus i - 1, with a quantity that is a function of the
\* strategy and of the history it was given.  The quantity is kept symbolic,
\* as the arguments that determine it.
PredictedQty(model, months, i) == [model |-> model, history |-> months, step |-> i]

Prediction(model, months, i) ==
  [period |-> months + i, predicted_qty |-> PredictedQty(model, months, i)]

KeyOf(row) == <<row.model_type, row.period>>

\* uq_forecasts_business_key: no committed row with the same
\* (product_id, period, model_type).
ForecastUniqueOk_NoConstraint(rows, row) == TRUE

ForecastUniqueOk(rows, row) ==
  \A x \in rows : ~(x.product_id = row.product_id /\ x.period = row.period
                    /\ x.model_type = row.model_type)

\* ForecastRepository.delete_by_product_model_period: the rows the DELETE
\* statement matches; it stays uncommitted in the caller's transaction.
delete_by_product_model_period(product_id, model_type, period) ==
  {x \in forecasts : x.product_id = product_id /\ x.model_type = model_type
                     /\ x.period = period}

\* BaseRepository.create: INSERT and COMMIT of the caller's transaction, so
\* the deletions it staged are applied with it.  TRUE iff the commit passes
\* the table's constraints.
BaseRepository_create_ok(staged, row) == ForecastUniqueOk(forecasts \ staged, row)

BaseRepository_create(staged, row) == (forecasts \ staged) \cup {row}

IdleForecast ==
  /\ history = MinHistory - 1
  /\ forecasts = {}
  /\ audits = {}
  /\ events = [r \in RunIds |-> NoEvent]
  /\ runs = [r \in RunIds |-> NoRun]
  /\ nextRun = 0
  /\ lastWriter = [k \in ForecastKeys |-> NoWrite]

\* A new month of actuals is recorded for the product.
record_actual ==
  /\ history < MaxMonths
  /\ history' = history + 1
  /\ UNCHANGED <<forecasts, audits, events, runs, nextRun, lastWriter>>
  /\ UNCHANGED notFcVars

\* Lines 86-92: load the history, pick the model, compute the predictions.
gen_start(model_type, horizon) ==
  /\ nextRun < MaxRuns
  /\ nextRun' = nextRun + 1
  /\ \E default_model \in ForecastModels :
       LET r == nextRun + 1
           advisor == recommend_model(model_type, default_model, FALSE, [kind |-> "raise"])
       IN runs' = [runs EXCEPT ![r] =
            IF history < MinHistory
            THEN Returned(NoRun, "failed", "InsufficientData")
            ELSE [pc |-> "delete", error |-> NULL,
                  model_type |-> advisor.recommended_model,
                  months |-> history, horizon |-> horizon, i |-> 1, staged |-> {},
                  created |-> 0]]
  /\ UNCHANGED <<history, forecasts, audits, events, lastWriter>>
  /\ UNCHANGED notFcVars

\* Lines 96-98: the DELETE of the upsert.
gen_delete(r) ==
  /\ runs[r].pc = "delete"
  /\ LET pred == Prediction(runs[r].model_type, runs[r].months, runs[r].i)
     IN runs' = [runs EXCEPT ![r].pc = "insert",
                             ![r].staged = delete_by_product_model_period(
                                             ProductId, runs[r].model_type, pred.period)]
  /\ UNCHANGED <<history, forecasts, audits, events, nextRun, lastWriter>>
  /\ UNCHANGED notFcVars

\* Lines 99-117: build the Forecast and create it.  An IntegrityError ends
\* the call; what earlier iterations committed stays.
gen_create(r) ==
  /\ runs[r].pc = "insert"
  /\ LET pred == Prediction(runs[r].model_type, runs[r].months, runs[r].i)
         forecast == [product_id |-> ProductId, model_type |-> runs[r].model_type,
                      period |-> pred.period, predicted_qty |-> pred.predicted_qty]
     IN IF BaseRepository_create_ok(runs[r].staged, forecast)
        THEN /\ forecasts' = BaseRepository_create(runs[r].staged, forecast)
             /\ lastWriter' = [lastWriter EXCEPT ![KeyOf(forecast)] =
                                [written |-> TRUE, predicted_qty |-> forecast.predicted_qty]]
             /\ runs' = [runs EXCEPT
                  ![r].pc = IF runs[r].i = runs[r].horizon THEN "audit" ELSE "delete",
                  ![r].i = runs[r].i + 1,
                  ![r].staged = {},
                  ![r].created = runs[r].created + 1]
        ELSE /\ runs' = [runs EXCEPT ![r] = Returned(runs[r], "failed", "IntegrityError")]
             /\ UNCHANGED <<forecasts, lastWriter>>
  /\ UNCHANGED <<history, audits, events, nextRun>>
  /\ UNCHANGED notFcVars

\* ForecastGeneratedEvent(model_type=context.strategy.model_id,
\* records_created=len(created)), lines 149-155.
ForecastGeneratedEvent(r) ==
  [n |-> events[r].n + 1, model_type |-> runs[r].model_type,
   records_created |-> runs[r].created]

\* The event published before the audit row is committed.
gen_audit_PublishOnly(r) ==
  /\ runs[r].pc = "audit"
  /\ events' = [events EXCEPT ![r] = ForecastGeneratedEvent(r)]
  /\ runs' = [runs EXCEPT ![r] = Returned(runs[r], "done", NULL)]
  /\ UNCHANGED <<history, forecasts, audits, nextRun, lastWriter>>
  /\ UNCHANGED notFcVars

\* Lines 131-155: add the ForecastRunAudit, commit, publish the event.
gen_audit(r) ==
  /\ runs[r].pc = "audit"
  /\ audits' = audits \cup {r}
  /\ events' = [events EXCEPT ![r] = ForecastGeneratedEvent(r)]
  /\ runs' = [runs EXCEPT ![r] = Returned(runs[r], "done", NULL)]
  /\ UNCHANGED <<history, forecasts, nextRun, lastWriter>>
  /\ UNCHANGED notFcVars

\* The database call the run is about to make raises (connection lost,
\* statement timeout): the exception leaves the method.
gen_error(r) ==
  /\ runs[r].pc \in {"delete", "insert", "audit"}
  /\ runs' = [runs EXCEPT ![r] = Returned(runs[r], "failed", "OperationalError")]
  /\ UNCHANGED <<history, forecasts, audits, events, nextRun, lastWriter>>
  /\ UNCHANGED notFcVars

\* ========================================================================
\* Strategies and the diagnostics of a generation
\* ========================================================================

\* Third-party fitting code a strategy calls inside its try block.
Libraries == {"exp_smoothing", "arima", "prophet", "lstm"}

\* History lengths around the thresholds of the strategies.
HistoryLengths == {3, 4, 11, 12, 13, 24}

\* Each strategy yields what it returned: the number of points, the strategy
\* whose arithmetic produced them, and whether the strategy asked for gave
\* way to another one.  `fails` is the set of libraries whose fit raises.
MovingAverageStrategy(months, horizon, fails) ==
  [points |-> horizon, computed_by |-> "moving_average"]

EWMAStrategy(months, horizon, fails) ==
  [points |-> horizon, computed_by |-> "ewma"]

ExponentialSmoothingStrategy(months, horizon, fails) ==
  IF months < 4 \/ "exp_smoothing" \in fails
  THEN MovingAverageStrategy(months, horizon, fails)
  ELSE [points |-> horizon, computed_by |-> "exp_smoothing"]

SeasonalNaiveStrategy(months, horizon, fails) ==
  IF months < 12
  THEN EWMAStrategy(months, horizon, fails)
  ELSE [points |-> horizon, computed_by |-> "seasonal_naive"]

ARIMAStrategy(months, horizon, fails) ==
  IF months < 12 \/ "arima" \in fails
  THEN ExponentialSmoothingStrategy(months, horizon, fails)
  ELSE [points |-> horizon, computed_by |-> "arima"]

ProphetStrategy(months, horizon, fails) ==
  IF months < 12 \/ "prophet" \in fails
  THEN ExponentialSmoothingStrategy(months, horizon, fails)
  ELSE [points |-> horizon, computed_by |-> "prophet"]

LSTMStrategy(months, horizon, fails) ==
  IF months < 13 \/ "lstm" \in fails
  THEN ExponentialSmoothingStrategy(months, horizon, fails)
  ELSE [points |-> horizon, computed_by |-> "lstm"]

\* ForecastContext.execute on the strategy the factory built for model_id.
execute(model_id, months, horizon, fails) ==
  CASE model_id = "moving_average" -> MovingAverageStrategy(months, horizon, fails)
    [] model_id = "ewma" -> EWMAStrategy(months, horizon, fails)
    [] model_id = "exp_smoothing" -> ExponentialSmoothingStrategy(months, horizon, fails)
    [] model_id = "seasonal_naive" -> SeasonalNaiveStrategy(months, horizon, fails)
    [] model_id = "arima" -> ARIMAStrategy(months, horizon, fails)
    [] model_id = "prophet" -> ProphetStrategy(months, horizon, fails)
    [] model_id = "lstm" -> LSTMStrategy(months, horizon, fails)

NoGenIn == [model_type |-> "none"]

NoGenOut == [raised |-> "none"]

IdleGen == genIn = NoGenIn /\ genOut = NoGenOut

\* generate_forecast_with_diagnostics, lines 86-159, as a function of its
\* inputs: the advisor decision, the strategy run, the diagnostics dict and
\* the columns of the ForecastRunAudit row.
generate_forecast_with_diagnostics(in) ==
  LET advisor == recommend_model(in.model_type, in.default_model, in.enabled, in.llm)
      predictions == execute(advisor.recommended_model, in.months, in.horizon, in.fails)
  IN [raised |-> "no",
      forecasts |-> predictions.points,
      selected_model |-> advisor.recommended_model,
      computed_by |-> predictions.computed_by,
      diagnostics |-> [selected_model |-> advisor.recommended_model,
                       advisor_enabled |-> advisor.advisor_enabled,
                       fallback_used |-> advisor.fallback_used,
                       warnings |-> advisor.warnings,
                       history_months |-> in.months],
      audit |-> [selected_model |-> advisor.recommended_model,
                 horizon |-> in.horizon,
                 fallback_used |-> advisor.fallback_used,
                 records_created |-> predictions.points]]

generate ==
  /\ genOut = NoGenOut
  /\ genOut' = generate_forecast_with_diagnostics(genIn)
  /\ UNCHANGED genIn
  /\ UNCHANGED notGenVars

\* ------------------------------------------------------------------------
\* The arithmetic of the strategies (app/ml/strategies.py)
\* ------------------------------------------------------------------------
\* Demand is in whole units; every quantity a strategy computes is kept in
\* hundredths of a unit, the precision of its round(..., 2).
Max(a, b) == IF a >= b THEN a ELSE b

Abs(x) == IF x < 0 THEN -x ELSE x

\* a / b to the nearest integer, b > 0.
RoundDiv(a, b) == IF a >= 0 THEN (2 * a + b) \div (2 * b) ELSE -((2 * (-a) + b) \div (2 * b))

RECURSIVE Isqrt(_)
Isqrt(n) == IF n < 2 THEN n ELSE LET s == 2 * Isqrt(n \div 4) IN IF (s + 1) * (s + 1) <= n THEN s + 1 ELSE s

RECURSIVE SumSeq(_)
SumSeq(s) == IF s = <<>> THEN 0 ELSE Head(s) + SumSeq(Tail(s))

\* pandas Series.std() (sample standard deviation, ddof = 1), in hundredths.
SeriesStd(y) == LET n == Len(y) s1 == SumSeq(y) s2 == SumSeq([k \in 1..n |-> y[k] * y[k]]) IN Isqrt((10000 * (n * s2 - s1 * s1)) \div (n * (n - 1)))

\* A monthly period, and date + relativedelta(months=i).
MonthIndex(p) == 12 * p.year + (p.month - 1)

AddMonths(p, i) == LET t == MonthIndex(p) + i IN [year |-> t \div 12, month |-> (t % 12) + 1]

\* The frame df: one row per month from df.first on, column y.
ds(df, k) == AddMonths(df.first, k - 1)

_build_future_periods(df, horizon) == [i \in 1..horizon |-> AddMonths(ds(df, Len(df.y)), i)]

min_data_months(model_id) ==
  CASE model_id = "moving_average" -> 3
    [] model_id = "ewma" -> 4
    [] model_id = "exp_smoothing" -> 12
    [] model_id = "seasonal_naive" -> 12
    [] model_id = "arima" -> 12
    [] model_id = "lstm" -> 18
    [] model_id = "prophet" -> 24

\* What a strategy returns: the list of points and, first to last, the
\* strategies whose forecast() was entered to produce it.
Delegated(model_id, result) == [result EXCEPT !.chain = <<model_id>> \o @]

MovingAverageStrategy_forecast(df, horizon, lib) ==
  LET y == df.y
      n == Len(y)
      window == Min(6, n)
      recent == SubSeq(y, n - window + 1, n)
      weighted_avg == RoundDiv(100 * SumSeq([k \in 1..window |-> k * recent[k]]), (window * (window + 1)) \div 2)
      trend == IF n >= 2 THEN 30 * (y[n] - y[n - 1]) ELSE 0
      std == IF n > 1 THEN SeriesStd(y) ELSE RoundDiv(weighted_avg, 10)
      band == RoundDiv(196 * std, 100)
      future_periods == _build_future_periods(df, horizon)
      centre(i) == weighted_avg + RoundDiv(trend * i, 2)
  IN [chain |-> <<"moving_average">>,
      points |-> [i \in 1..horizon |->
                    [period |-> future_periods[i],
                     predicted_qty |-> Max(0, centre(i)),
                     lower_bound |-> Max(0, centre(i) - band),
                     upper_bound |-> centre(i) + band]]]

\* ewm(alpha=0.35, adjust=False).mean() up to row k.
RECURSIVE Ewm(_, _)
Ewm(y, k) == IF k = 1 THEN 100 * y[1] ELSE RoundDiv(65 * Ewm(y, k - 1) + 35 * 100 * y[k], 100)

EWMAStrategy_forecast(df, horizon, lib) ==
  LET y == df.y
      n == Len(y)
      ewma == Ewm(y, n)
      diff3 == IF n >= 4 THEN y[n] - y[n - 3] ELSE 0
      std == IF n > 1 THEN SeriesStd(y) ELSE Max(100, RoundDiv(ewma, 10))
      band == RoundDiv(164 * std, 100)
      future_periods == _build_future_periods(df, horizon)
      centre(i) == ewma + RoundDiv(40 * diff3 * i, 3)
  IN [chain |-> <<"ewma">>,
      points |-> [i \in 1..horizon |->
                    [period |-> future_periods[i],
                     predicted_qty |-> Max(0, centre(i)),
                     lower_bound |-> Max(0, centre(i) - band),
                     upper_bound |-> Max(0, centre(i) + band)]]]

\* The fitted third-party model is an input: lib.raises are the libraries
\* whose fit raises, lib.v the value it forecasts and lib.s the spread it
\* reports (residual std, half-width of the interval), in hundredths.
ExponentialSmoothingStrategy_forecast(df, horizon, lib) ==
  IF Len(df.y) < 4 \/ "exp_smoothing" \in lib.raises
  THEN Delegated("exp_smoothing", MovingAverageStrategy_forecast(df, horizon, lib))
  ELSE LET band == RoundDiv(196 * lib.s, 100)
           future_periods == _build_future_periods(df, horizon)
       IN [chain |-> <<"exp_smoothing">>,
           points |-> [i \in 1..horizon |->
                         [period |-> future_periods[i],
                          predicted_qty |-> Max(0, lib.v),
                          lower_bound |-> Max(0, lib.v - band),
                          upper_bound |-> lib.v + band]]]

SeasonalNaiveStrategy_forecast(df, horizon, lib) ==
  IF Len(df.y) < 12
  THEN Delegated("seasonal_naive", EWMAStrategy_forecast(df, horizon, lib))
  ELSE LET y == df.y
           n == Len(y)
           band == RoundDiv(164 * SeriesStd(y), 100)
           future_periods == _build_future_periods(df, horizon)
           v(i) == 100 * y[n - 12 + ((i - 1) % 12) + 1]
       IN [chain |-> <<"seasonal_naive">>,
           points |-> [i \in 1..horizon |->
                         [period |-> future_periods[i],
                          predicted_qty |-> Max(0, v(i)),
                          lower_bound |-> Max(0, v(i) - band),
                          upper_bound |-> Max(0, v(i) + band)]]]

\* ARIMA and Prophet clamp the mean and both ends of the library's interval.
IntervalClamped(model_id, df, horizon, lib, z) ==
  LET band == RoundDiv(z * lib.s, 100)
      future_periods == _build_future_periods(df, horizon)
  IN [chain |-> <<model_id>>,
      points |-> [i \in 1..horizon |->
                    [period |-> future_periods[i],
                     predicted_qty |-> Max(0, lib.v),
                     lower_bound |-> Max(0, lib.v - band),
                     upper_bound |-> Max(0, lib.v + band)]]]

ARIMAStrategy_forecast(df, horizon, lib) ==
  IF Len(df.y) < min_data_months("arima") \/ "arima" \in lib.raises
  THEN Delegated("arima", ExponentialSmoothingStrategy_forecast(df, horizon, lib))
  ELSE IntervalClamped("arima", df, horizon, lib, 196)

ProphetStrategy_forecast(df, horizon, lib) ==
  IF Len(df.y) < 12 \/ "prophet" \in lib.raises
  THEN Delegated("prophet", ExponentialSmoothingStrategy_forecast(df, horizon, lib))
  ELSE IntervalClamped("prophet", df, horizon, lib, 196)

\* lookback_window = 12 by default: max(8, lookback_window + 1) = 13.
LSTMStrategy_forecast(df, horizon, lib) ==
  IF Len(df.y) < 13 \/ "lstm" \in lib.raises
  THEN Delegated("lstm", ExponentialSmoothingStrategy_forecast(df, horizon, lib))
  ELSE LET pred == Max(0, lib.v)
           band == RoundDiv(164 * lib.s, 100)
           future_periods == _build_future_periods(df, horizon)
       IN [chain |-> <<"lstm">>,
           points |-> [i \in 1..horizon |->
                         [period |-> future_periods[i],
                          predicted_qty |-> pred,
                          lower_bound |-> Max(0, pred - band),
                          upper_bound |-> Max(0, pred + band)]]]

\* ForecastContext(strategy).execute(df, horizon) for the strategy model_id.
ForecastContext_execute(model_id, df, horizon, lib) ==
  CASE model_id = "moving_average" -> MovingAverageStrategy_forecast(df, horizon, lib)
    [] model_id = "ewma" -> EWMAStrategy_forecast(df, horizon, lib)
    [] model_id = "exp_smoothing" -> ExponentialSmoothingStrategy_forecast(df, horizon, lib)
    [] model_id = "seasonal_naive" -> SeasonalNaiveStrategy_forecast(df, horizon, lib)
    [] model_id = "arima" -> ARIMAStrategy_forecast(df, horizon, lib)
    [] model_id = "prophet" -> ProphetStrategy_forecast(df, horizon, lib)
    [] model_id = "lstm" -> LSTMStrategy_forecast(df, horizon, lib)

\* Histories: for every length up to MaxHistoryLen a flat one, an all-zero
\* one, a sawtooth, a steady decline to zero and one whose only demand is in
\* the month before the last.
HistoryShapes == {"flat", "zero", "saw", "decline", "spike"}

Shape(kind, n) ==
  [k \in 1..n |->
     CASE kind = "flat" -> 5
       [] kind = "zero" -> 0
       [] kind = "saw" -> (k % 8) + 1
       [] kind = "decline" -> Min(10, 2 * (n - k))
       [] kind = "spike" -> IF k = n - 1 THEN 10 ELSE 0]

FirstPeriod == [year |-> 2024, month |-> 1]

Frames == {[first |-> FirstPeriod, y |-> Shape(kind, n)] : kind \in HistoryShapes, n \in 1..MaxHistoryLen}

LibraryReplies == [raises : {{}, {"arima", "prophet", "lstm"}, Libraries}, v : {700, -300}, s : {150}]

strategy_forecast ==
  /\ genOut = NoGenOut
  /\ genOut' = [raised |-> "no", result |-> ForecastContext_execute(genIn.strategy, genIn.df, genIn.horizon, genIn.lib)]
  /\ UNCHANGED genIn
  /\ UNCHANGED notGenVars


\* ------------------------------------------------------------------------
\* Walk-forward backtests (ForecastService._run_backtests)
\* ------------------------------------------------------------------------
\* ForecastModelFactory.list_models(): the registered ids, in registry order.
RegistryOrders == {<<"moving_average", "ewma", "exp_smoothing", "seasonal_naive", "arima", "prophet", "lstm">>, <<"lstm", "prophet", "arima", "seasonal_naive", "exp_smoothing", "ewma", "moving_average">>}

\* df.iloc[:split + 1], one row too many.
iloc_upto_Leaky(df, split) == [first |-> df.first, y |-> SubSeq(df.y, 1, split + 1)]

\* df.iloc[:split]: the rows at positions 0 .. split - 1.
iloc_upto(df, split) == [first |-> df.first, y |-> SubSeq(df.y, 1, split)]

\* One pass of the loop body at lines 490-504; split is the 0-based position
\* of the held-out row.
Evaluation(model_id, df, split, lib) ==
  LET train == iloc_upto(df, split)
      actual == 100 * df.y[split + 1]
      pred == ForecastContext_execute(model_id, train, 1, lib).points[1].predicted_qty
  IN [model_type |-> model_id, split |-> split, train |-> train, actual |-> actual, pred |-> pred, abs_err |-> Abs(pred - actual)]

\* The passes for one model, in loop order; none when n <= min_history.
Evaluations(model_id, df, lib) ==
  LET n == Len(df.y)
      min_history == Max(3, min_data_months(model_id))
      start == Max(min_history, n - 6)
  IN IF n <= min_history THEN <<>> ELSE [k \in 1..(n - start) |-> Evaluation(model_id, df, start + k - 1, lib)]

\* The metric row of lines 509-526; percentages in hundredths of a percent.
Metric(model_id, evs) ==
  LET usable == SelectSeq(evs, LAMBDA e : e.actual # 0)
      abs_sum == SumSeq([k \in 1..Len(evs) |-> evs[k].abs_err])
      actual_sum == SumSeq([k \in 1..Len(evs) |-> Abs(evs[k].actual)])
      mape == IF usable = <<>> THEN 0 ELSE RoundDiv(SumSeq([k \in 1..Len(usable) |-> RoundDiv(usable[k].abs_err * 10000, Abs(usable[k].actual))]), Len(usable))
      wape == IF actual_sum > 0 THEN RoundDiv(abs_sum * 10000, actual_sum) ELSE 0
  IN [model_type |-> model_id, mape |-> mape, wape |-> wape, mae |-> RoundDiv(abs_sum, Len(evs)), period_count |-> Len(evs), score |-> mape + RoundDiv(wape, 4)]

\* The list `metrics` after the loop over model_ids.
RECURSIVE MetricRows(_, _, _)
MetricRows(model_ids, df, lib) == IF model_ids = <<>> THEN <<>> ELSE LET evs == Evaluations(Head(model_ids), df, lib) IN (IF evs = <<>> THEN <<>> ELSE <<Metric(Head(model_ids), evs)>>) \o MetricRows(Tail(model_ids), df, lib)

\* The rows in the order of the loop, unsorted.
sorted_Unsorted(metrics) == metrics

\* sorted(metrics, key=lambda m: m["score"]): stable, ascending.
RECURSIVE sorted(_)
sorted(metrics) == IF metrics = <<>> THEN <<>> ELSE LET m == metrics[Len(metrics)] front == sorted(SubSeq(metrics, 1, Len(metrics) - 1)) IN SelectSeq(front, LAMBDA x : x.score <= m.score) \o <<m>> \o SelectSeq(front, LAMBDA x : x.score > m.score)

_run_backtests(df, lib, model_ids) == sorted(MetricRows(model_ids, df, lib))

\* best is what ForecastModelFactory.get_best_strategy(history_months) names.
_select_default_model(history_months, candidate_metrics, best) == IF candidate_metrics # <<>> THEN candidate_metrics[1].model_type ELSE best

RECURSIVE AllEvaluations(_, _, _)
AllEvaluations(model_ids, df, lib) == IF model_ids = <<>> THEN <<>> ELSE Evaluations(Head(model_ids), df, lib) \o AllEvaluations(Tail(model_ids), df, lib)

run_backtests ==
  /\ genOut = NoGenOut
  /\ LET candidate_metrics == _run_backtests(genIn.df, genIn.lib, genIn.model_ids)
     IN genOut' = [raised |-> "no",
                   evaluations |-> AllEvaluations(genIn.model_ids, genIn.df, genIn.lib),
                   candidate_metrics |-> candidate_metrics,
                   default_model |-> _select_default_model(Len(genIn.df.y), candidate_metrics, genIn.best)]
  /\ UNCHANGED genIn
  /\ UNCHANGED notGenVars


\* ========================================================================
\* Specifications: one per component; the other components stay idle.
\* ========================================================================
InitJobs == IdleJobs /\ IdleCons /\ IdleAdvisor /\ IdleForecast /\ IdleGen

NextJobs ==
  \/ \E p \in JobParams : enqueue_forecast(p)
  \/ \E j \in JobIds : cancel_job_load(j)
  \/ cancel_job_commit
  \/ \E j \in JobIds : retry_job(j)
  \/ cleanup_count
  \/ cleanup_delete
  \/ \E w \in Workers : run_load(w)
  \/ \E w \in Workers : run_start(w)
  \/ \E w \in Workers : run_complete(w)
  \/ \E w \in Workers : run_fail(w)
  \/ Tick

SpecJobs == InitJobs /\ [][NextJobs]_vars

\* The scheduler while no cleanup runs: callers enqueue, cancel and retry, the
\* pool threads run jobs.
NextJobsCore ==
  \/ \E p \in JobParams : enqueue_forecast(p)
  \/ \E j \in JobIds : cancel_job_load(j)
  \/ cancel_job_commit
  \/ \E j \in JobIds : retry_job(j)
  \/ \E w \in Workers : run_load(w)
  \/ \E w \in Workers : run_start(w)
  \/ \E w \in Workers : run_complete(w)
  \/ \E w \in Workers : run_fail(w)

SpecJobsCore == InitJobs /\ [][NextJobsCore]_vars

\* The scheduler with a fair pool: a thread that is free takes the next
\* submitted task, a task that has loaded its row goes on to start it, and
\* every generate_forecast call returns or raises.  Callers are not obliged
\* to do anything.
FairPool ==
  \A w \in Workers :
    /\ WF_vars(run_load(w))
    /\ WF_vars(run_start(w))
    /\ WF_vars(run_complete(w) \/ run_fail(w))

SpecJobsFair == InitJobs /\ [][NextJobsCore]_vars /\ FairPool

\* ForecastJobService(max_workers=1): the same scheduler with a pool of one
\* thread, so that more jobs are submitted than the pool has threads.
SmallPool == 1..(max_workers - 1)

InitPool ==
  /\ jobs = [j \in JobIds |-> NoRow]
  /\ nextJob = 0
  /\ queue = <<>>
  /\ wpc = [w \in SmallPool |-> "idle"]
  /\ wjob = [w \in SmallPool |-> 0]
  /\ invoked = {}
  /\ cancelReq = NoReq
  /\ cleanupReq = NoReq
  /\ now = 0
  /\ IdleCons /\ IdleAdvisor /\ IdleForecast /\ IdleGen

NextPool ==
  \/ \E p \in JobParams : enqueue_forecast(p)
  \/ \E j \in JobIds : cancel_job_load(j)
  \/ cancel_job_commit
  \/ \E j \in JobIds : retry_job(j)
  \/ \E w \in SmallPool : run_load(w)
  \/ \E w \in SmallPool : run_start(w)
  \/ \E w \in SmallPool : run_complete(w)
  \/ \E w \in SmallPool : run_fail(w)

SpecPool == InitPool /\ [][NextPool]_vars

NextConsensus ==
  \/ \E s \in Sessions, data \in CreateInputs : create_load(s, data)
  \/ \E s \in Sessions : create_commit(s)
  \/ \E s \in Sessions, c \in ConsIds, data \in UpdateInputs : update_load(s, c, data)
  \/ \E s \in Sessions : update_commit(s)
  \/ \E s \in Sessions, c \in ConsIds, body \in ApproveInputs : approve_load(s, c, body)
  \/ \E s \in Sessions : approve_commit(s)
  \/ \E s \in Sessions : approve_sync(s)
  \/ \E s \in Sessions : approve_sync_fails(s)

InitConsensus == IdleJobs /\ IdleCons /\ IdleAdvisor /\ IdleForecast /\ IdleGen

SpecConsensus == InitConsensus /\ [][NextConsensus]_vars

NextQuantities ==
  \/ \E s \in Sessions, data \in QtyCreateInputs : create_load(s, data)
  \/ \E s \in Sessions : create_commit(s)
  \/ \E s \in Sessions, c \in ConsIds, data \in QtyUpdateInputs : update_load(s, c, data)
  \/ \E s \in Sessions : update_commit(s)

SpecQuantities == InitConsensus /\ [][NextQuantities]_vars

InitAdvisor ==
  /\ IdleJobs /\ IdleCons /\ IdleForecast /\ IdleGen
  /\ advIn \in [requested_model : RequestedModels, default_model : RegisteredModels,
                enabled : BOOLEAN, llm : LlmReplies]
  /\ advOut = NoDecision

NextAdvisor == advise

SpecAdvisor == InitAdvisor /\ [][NextAdvisor]_vars

InitForecast == IdleJobs /\ IdleCons /\ IdleAdvisor /\ IdleForecast /\ IdleGen

NextForecast ==
  \/ record_actual
  \/ \E model_type \in ForecastModels \cup {NULL}, horizon \in Horizons :
       gen_start(model_type, horizon)
  \/ \E r \in RunIds : gen_delete(r)
  \/ \E r \in RunIds : gen_create(r)
  \/ \E r \in RunIds : gen_audit(r)
  \/ \E r \in RunIds : gen_error(r)

SpecForecast == InitForecast /\ [][NextForecast]_vars

InitGen ==
  /\ IdleJobs /\ IdleCons /\ IdleAdvisor /\ IdleForecast
  /\ genIn \in [model_type : RegisteredModels \cup {NULL},
                default_model : {"moving_average", "arima"},
                enabled : BOOLEAN,
                llm : {[kind |-> "raise"],
                       [kind |-> "payload", payload |-> [recommended_model |-> "prophet"]]},
                months : HistoryLengths,
                horizon : Horizons,
                fails : SUBSET Libraries]
  /\ genOut = NoGenOut

NextGen == generate

SpecGen == InitGen /\ [][NextGen]_vars

InitStrategies ==
  /\ IdleJobs /\ IdleCons /\ IdleAdvisor /\ IdleForecast
  /\ genIn \in [strategy : RegisteredModels, df : Frames, horizon : 1..MaxAhead, lib : LibraryReplies]
  /\ genOut = NoGenOut

NextStrategies == strategy_forecast

SpecStrategies == InitStrategies /\ [][NextStrategies]_vars

InitBacktests ==
  /\ IdleJobs /\ IdleCons /\ IdleAdvisor /\ IdleForecast
  /\ genIn \in [df : Frames, lib : LibraryReplies, model_ids : RegistryOrders, best : {"moving_average", "ewma"}]
  /\ genOut = NoGenOut

NextBacktests == run_backtests

SpecBacktests == InitBacktests /\ [][NextBacktests]_vars

\* ------------------------------------------------------------------------
\* Claims about the model advisor
\* ------------------------------------------------------------------------

\* C7: the recommended_model of every decision recommend_model returns is a
\* member of the supported strategy set.
C7_RecommendedModelSupported ==
  advOut # NoDecision => advOut.recommended_model \in _supported_models

\* C22: a decision for a call with a requested model carries that model
\* verbatim, confidence 1.0, fallback_used false and no warnings, whatever
\* default_model, the configuration and the recommender would have said,
\* and the external recommender was not consulted.
C22_RequestedModelVerbatim ==
  (advOut # NoDecision /\ advIn.requested_model \notin {NULL, ""})
    => /\ advOut.recommended_model = advIn.requested_model
       /\ advOut.confidence = 100
       /\ ~advOut.fallback_used
       /\ advOut.warnings = <<>>
       /\ ~advOut.consulted

\* A requested model was returned although the recommender was configured
\* and would have named another one.
C22_Witness ==
  /\ advOut # NoDecision
  /\ advIn.requested_model = "prophet"
  /\ advIn.enabled
  /\ advIn.llm.kind = "payload"
  /\ "recommended_model" \in DOMAIN advIn.llm.payload
  /\ advIn.llm.payload.recommended_model = "arima"
  /\ advOut.recommended_model = "prophet"

\* C23: without a requested model, when the recommender is not configured,
\* raises, answers something unparseable or names a model outside the
\* supported set, the decision is default_model with fallback_used true and
\* a confidence in [0, 1]; not configured: 0.65 and warning
\* 'llm_unavailable'.
C23_FallbackToDefault ==
  ( /\ advOut # NoDecision
    /\ advIn.requested_model \in {NULL, ""}
    /\ \/ ~advIn.enabled
       \/ advIn.llm.kind \in {"raise", "unparseable"}
       \/ /\ advIn.llm.kind = "payload"
          /\ "recommended_model" \in DOMAIN advIn.llm.payload
          /\ advIn.llm.payload.recommended_model \notin _supported_models )
    => /\ advOut.recommended_model = advIn.default_model
       /\ advOut.fallback_used
       /\ 0 <= advOut.confidence /\ advOut.confidence <= 100
       /\ ~advIn.enabled => /\ advOut.confidence = 65
                            /\ advOut.warnings = <<"llm_unavailable">>

\* ------------------------------------------------------------------------
\* Claims about the job scheduler
\* ------------------------------------------------------------------------

\* C1: once a job's committed status is 'cancelled', no step makes it
\* 'running' and no step invokes the forecast orchestrator for it.
C1_CancelledNeverRuns ==
  [][\A j \in JobIds :
       (jobs[j] # NoRow /\ jobs[j].status = "cancelled")
         => /\ jobs'[j].status # "running"
            /\ (j \in invoked' => j \in invoked)]_vars

\* C2: when a job is 'cancelled' while a pool worker is still executing it,
\* the worker's write-back leaves the status 'cancelled' and result_json
\* as it was (null): the result of the in-flight computation is discarded.
C2_CancelledResultDiscarded ==
  [][\A j \in JobIds :
       ( /\ jobs[j] # NoRow
         /\ jobs[j].status = "cancelled"
         /\ \E w \in Workers : wpc[w] = "executing" /\ wjob[w] = j
         /\ jobs'[j] # NoRow )
         => /\ jobs'[j].status = "cancelled"
            /\ jobs'[j].result_json = jobs[j].result_json]_vars

AllowedJobTransitions ==
  { <<"queued", "running">>, <<"running", "completed">>, <<"running", "failed">>,
    <<"queued", "cancelled">>, <<"running", "cancelled">> }

\* C3: every change of a job's status is one of queued->running,
\* running->completed, running->failed, queued->cancelled, running->cancelled;
\* in particular completed, failed and cancelled are never left.
C3_JobStateMachine ==
  [][\A j \in JobIds :
       (jobs[j] # NoRow /\ jobs'[j] # NoRow /\ jobs'[j].status # jobs[j].status)
         => <<jobs[j].status, jobs'[j].status>> \in AllowedJobTransitions]_vars

\* C12: retry_job(j) creates a row iff j exists with status failed or
\* cancelled; the new row has an unused job_id, status 'queued' and j's
\* product_id, horizon, model_type and requested_by, and is submitted to the
\* pool; every existing row, j included, is left as it was.  Otherwise no
\* row is created and nothing is submitted.
C12_RetryOnlyFromFailedOrCancelled ==
  [][\A j \in JobIds :
       retry_job(j) =>
         IF jobs[j] # NoRow /\ jobs[j].status \in {"failed", "cancelled"}
         THEN \E k \in JobIds :
                /\ jobs[k] = NoRow /\ k \notin {queue[i] : i \in DOMAIN queue}
                /\ jobs'[k].status = "queued"
                /\ jobs'[k].product_id = jobs[j].product_id
                /\ jobs'[k].horizon = jobs[j].horizon
                /\ jobs'[k].model_type = jobs[j].model_type
                /\ jobs'[k].requested_by = jobs[j].requested_by
                /\ queue' = Append(queue, k)
                /\ \A i \in JobIds \ {k} : jobs'[i] = jobs[i]
         ELSE jobs' = jobs /\ queue' = queue]_vars

\* A failed or cancelled job and a later job with its parameters that is
\* queued and waiting in the pool's work queue.
C12_Witness ==
  \E j, k \in JobIds :
    /\ j < k
    /\ jobs[j] # NoRow /\ jobs[j].status \in {"failed", "cancelled"}
    /\ jobs[k] # NoRow /\ jobs[k].status = "queued"
    /\ jobs[k].product_id = jobs[j].product_id
    /\ jobs[k].horizon = jobs[j].horizon
    /\ jobs[k].model_type = jobs[j].model_type
    /\ jobs[k].requested_by = jobs[j].requested_by
    /\ \E i \in DOMAIN queue : queue[i] = k

\* C13: the write of cancel_job changes a job only if that job's status is
\* queued or running, and then sets status 'cancelled', a non-null
\* completed_at and the cancellation reason, and nothing else; on a job
\* that is completed, failed, cancelled or gone it changes no job.
C13_CancelOnlyQueuedOrRunning ==
  [][cancel_job_commit =>
       LET j == cancelReq.job_id IN
         IF jobs[j] # NoRow /\ jobs[j].status \in {"queued", "running"}
         THEN /\ jobs' = [jobs EXCEPT ![j].status = "cancelled",
                                      ![j].completed_at = now,
                                      ![j].error = "Cancelled by user"]
              /\ jobs'[j].completed_at # NoTime
         ELSE jobs' = jobs]_vars

\* C14: cleanup_old_jobs deletes exactly the rows that are completed, failed
\* or cancelled with a completed_at strictly older than the cutoff, never a
\* queued or running row, and the count it returns and publishes is the
\* number of rows it removed.
C14_CleanupDeletesOldTerminalAndCounts ==
  [][cleanup_delete =>
       LET removed == { j \in JobIds : jobs[j] # NoRow /\ jobs'[j] = NoRow } IN
         /\ \A j \in JobIds :
              j \in removed <=>
                /\ jobs[j] # NoRow
                /\ jobs[j].status \in {"completed", "failed", "cancelled"}
                /\ jobs[j].completed_at # NoTime
                /\ jobs[j].completed_at < cleanupReq.cutoff
         /\ \A j \in removed : jobs[j].status \notin {"queued", "running"}
         /\ \A j \in JobIds \ removed : jobs'[j] = jobs[j]
         /\ cleanupReq.to_delete = Cardinality(removed)]_vars

C4_StaleUpdateRejected ==
  [][\A s \in Sessions :
       ( /\ req[s].op = "update"
         /\ req'[s] = NoCall
         /\ consensus[req[s].id].version # req[s].updates.version - 1 )
         => consensus'[req[s].id] = consensus[req[s].id]]_vars

\* C5: in every committed state a record that approve_consensus has set to
\* 'approved' has had its final_consensus_qty written to the demand plan.
C5_ApproveAtomic ==
  \A c \in ConsIds :
    ( /\ consensus[c] # NoRow
      /\ consensus[c].status = "approved"
      /\ consensus[c].approved_by # 0 )
      => c \in synced

AllowedConsensusTransitions ==
  { <<"draft", "proposed">>, <<"proposed", "draft">>, <<"draft", "approved">>,
    <<"proposed", "approved">>, <<"approved", "frozen">> }

\* C6: a stored record's status changes only along draft->proposed,
\* proposed->draft, draft/proposed->approved and approved->frozen, and it
\* becomes 'approved' only in a step of approve_consensus.
C6_ConsensusStateMachine ==
  [][\A c \in ConsIds :
       (consensus[c] # NoRow /\ consensus'[c].status # consensus[c].status)
         => /\ <<consensus[c].status, consensus'[c].status>> \in AllowedConsensusTransitions
            /\ consensus'[c].status = "approved"
                 => \E s \in Sessions : req[s].op = "approve" /\ req[s].id = c]_vars

\* C8: no two stored consensus records share (forecast_run_audit_id, period,
\* version).
C8_UniqueRunPeriodVersion ==
  \A c, d \in ConsIds :
    (c # d /\ consensus[c] # NoRow /\ consensus[d] # NoRow)
      => <<consensus[c].forecast_run_audit_id, consensus[c].period, consensus[c].version>>
           # <<consensus[d].forecast_run_audit_id, consensus[d].period, consensus[d].version>>

\* C8 witness: two records of the same run and period are stored and an
\* update that would have duplicated a version has just been refused.
C8_Witness ==
  /\ resp = [op |-> "update", outcome |-> "integrity_error"]
  /\ \E c, d \in ConsIds :
       /\ c # d /\ consensus[c] # NoRow /\ consensus[d] # NoRow
       /\ consensus[c].forecast_run_audit_id = consensus[d].forecast_run_audit_id
       /\ consensus[c].period = consensus[d].period

\* C16: when approve_consensus returns successfully for record c, the stored
\* record is 'approved' with approved_by and approved_at set, and the demand
\* plan of its product and period either existed and now has consensus_qty =
\* c.final_consensus_qty and its version raised by 1, or did not exist and
\* is now a 'draft' at version 1 with forecast_qty = c.baseline_qty and
\* consensus_qty = c.final_consensus_qty.
C16_ApproveWritesThrough ==
  [][\A s \in Sessions :
       approve_sync(s) =>
         LET c == req[s].id
             rec == consensus'[c]
             before == demand_plans[rec.product_id]
             after == demand_plans'[rec.product_id]
         IN /\ rec.status = "approved"
            /\ rec.approved_by = ApproverId
            /\ rec.approved_at # NoTime
            /\ IF before # NoRow
               THEN /\ after.consensus_qty = rec.final_consensus_qty
                    /\ after.version = before.version + 1
                    /\ after.forecast_qty = before.forecast_qty
                    /\ after.status = before.status
               ELSE after = [forecast_qty |-> rec.baseline_qty,
                             consensus_qty |-> rec.final_consensus_qty,
                             status |-> "draft", version |-> 1]]_vars

\* C17: a step of update_consensus changes no field of a record whose stored
\* status is approved or frozen, and an update_consensus call that finds
\* the record approved or frozen is rejected with
\* BusinessRuleViolationException without a write.
C17_ApprovedRecordImmutable ==
  [][\A s \in Sessions :
       /\ \A c \in ConsIds, data \in UpdateInputs :
            ( /\ update_load(s, c, data)
              /\ consensus[c] # NoRow
              /\ consensus[c].status \in {"approved", "frozen"} )
              => /\ resp' = [op |-> "update", outcome |-> "business_rule"]
                 /\ req'[s] = NoCall
                 /\ consensus' = consensus
       /\ ( /\ update_commit(s)
            /\ consensus[req[s].id].status \in {"approved", "frozen"} )
            => consensus' = consensus]_vars

\* C18: a step of approve_consensus changes nothing of a record whose stored
\* status is already approved or frozen (a call that finds it so is
\* rejected with InvalidStateTransitionException), and no record is
\* written through to the demand plan a second time.
C18_ApproveAtMostOnce ==
  [][\A s \in Sessions :
       /\ \A c \in ConsIds, body \in ApproveInputs :
            ( /\ approve_load(s, c, body)
              /\ consensus[c] # NoRow
              /\ consensus[c].status \in {"approved", "frozen"} )
              => /\ resp' = [op |-> "approve", outcome |-> "invalid_transition"]
                 /\ req'[s] = NoCall
                 /\ consensus' = consensus
                 /\ demand_plans' = demand_plans
       /\ ( /\ approve_commit(s)
            /\ consensus[req[s].id].status \in {"approved", "frozen"} )
            => consensus' = consensus
       /\ ( /\ approve_sync(s)
            /\ req[s].id \in synced )
            => demand_plans' = demand_plans]_vars

\* C19: every stored consensus record has pre_consensus_qty = max(0,
\* baseline + sales_override + marketing_uplift + finance_adjustment) of its
\* stored quantities and final_consensus_qty = max(0, min(pre, cap)) when a
\* cap is stored, else pre; hence 0 <= final <= pre, and final <= cap
\* whenever a cap is stored.
C19_StoredQuantitiesConsistent ==
  \A c \in ConsIds :
    consensus[c] # NoRow =>
      LET r == consensus[c]
          sum == r.baseline_qty + r.sales_override_qty
                   + r.marketing_uplift_qty + r.finance_adjustment_qty
          pre == IF sum < 0 THEN 0 ELSE sum
          capped == IF r.constraint_cap_qty # NullQty
                    THEN (IF pre <= r.constraint_cap_qty THEN pre ELSE r.constraint_cap_qty)
                    ELSE pre
      IN /\ r.pre_consensus_qty = pre
         /\ r.final_consensus_qty = (IF capped < 0 THEN 0 ELSE capped)
         /\ 0 <= r.final_consensus_qty
         /\ r.final_consensus_qty <= r.pre_consensus_qty
         /\ r.constraint_cap_qty # NullQty => r.final_consensus_qty <= r.constraint_cap_qty

\* C20: an update_consensus call that succeeds leaves the stored version
\* exactly 1 above what it was, whatever fields it sent; one that is
\* rejected leaves the record as it was; and the first record created for
\* a run and period is stored at version 1.
C20_VersionIncrementsByOne ==
  [][\A s \in Sessions :
       /\ update_commit(s) =>
            LET c == req[s].id IN
              IF resp'.outcome = "ok"
              THEN consensus'[c].version = consensus[c].version + 1
              ELSE consensus' = consensus
       /\ \A c \in ConsIds, data \in UpdateInputs :
            (update_load(s, c, data) /\ resp' # NoResp) => consensus' = consensus
       /\ ( /\ create_commit(s)
            /\ resp'.outcome = "ok"
            /\ get_latest(req[s].row.period, req[s].row.forecast_run_audit_id) = 0 )
            => consensus'[nextCons'].version = 1]_vars

\* C21: every step that changes a stored consensus record whose status is
\* neither approved nor frozen leaves it at a strictly higher version, for
\* update_consensus as for the approve transition.
C21_MutationIncreasesVersion ==
  [][\A c \in ConsIds :
       ( /\ consensus[c] # NoRow
         /\ consensus[c].status \notin {"approved", "frozen"}
         /\ consensus'[c] # consensus[c] )
         => consensus'[c].version > consensus[c].version]_vars

\* ------------------------------------------------------------------------
\* Claims about forecast generation
\* ------------------------------------------------------------------------

C10_RowsAndAuditAtomic ==
  \A r \in RunIds :
    /\ runs[r].created > 0 => r \in audits
    /\ r \in audits => runs[r].created = runs[r].horizon

\* C24: a run that has returned successfully has published exactly one
\* ForecastGenerated event and any other run none; when the event is
\* published the run's audit row and forecast rows are committed, its
\* records_created is the number of rows the run wrote and its model_type
\* is the model stored on the rows of the run's periods.
C24_EventOncePerSuccessfulRun ==
  [][\A r \in RunIds :
       /\ runs'[r].pc = "done" => events'[r].n = 1
       /\ runs'[r].pc # "done" => events'[r] = NoEvent
       /\ events'[r] # events[r] =>
            /\ r \in audits'
            /\ events'[r].records_created = runs[r].horizon
            /\ events'[r].records_created = runs'[r].created
            /\ \A i \in 1..runs[r].horizon :
                 \E x \in forecasts' :
                   /\ x.period = runs[r].months + i
                   /\ x.model_type = events'[r].model_type]_vars

\* One run has published its event and another has failed without one.
C24_Witness ==
  \E r1, r2 \in RunIds :
    /\ runs[r1].pc = "done" /\ events[r1].n = 1 /\ events[r1].records_created = MaxHorizon
    /\ runs[r2].pc = "failed" /\ runs[r2].created > 0 /\ events[r2] = NoEvent

\* C25: a generation started on fewer than 3 months of history fails with
\* InsufficientDataException without deleting or writing a forecast row,
\* writing an audit row or publishing an event, then and later; started on
\* 3 or more months it never fails with that error.
C25_InsufficientDataNoWrites ==
  [][\A r \in RunIds :
       /\ (runs[r].pc = "idle" /\ runs'[r].pc # "idle") =>
            IF history < 3
            THEN /\ runs'[r].pc = "failed"
                 /\ runs'[r].error = "InsufficientData"
                 /\ forecasts' = forecasts /\ audits' = audits /\ events' = events
            ELSE /\ runs'[r].pc # "failed"
                 /\ runs'[r].months >= 3
       /\ (runs'[r].pc = "failed" /\ runs'[r].error = "InsufficientData") =>
            /\ runs'[r].created = 0
            /\ r \notin audits'
            /\ events'[r] = NoEvent
            /\ runs[r].pc \in {"idle", "failed"}]_vars

\* One generation was refused for lack of history and, a month of actuals
\* later, another one completed.
C25_Witness ==
  \E r1, r2 \in RunIds :
    /\ runs[r1].pc = "failed" /\ runs[r1].error = "InsufficientData"
    /\ runs[r2].pc = "done" /\ r2 \in audits
    /\ history = 3

\* ------------------------------------------------------------------------
\* Claims about strategies and diagnostics
\* ------------------------------------------------------------------------

\* C11: when the selected strategy gave way to its fallback (its history was
\* too short or its fit raised), the generation does not raise, returns
\* horizon points, and both its diagnostics and its audit row report
\* fallback_used = TRUE.
C11_StrategyFallbackReported ==
  (genOut # NoGenOut /\ genOut.computed_by # genOut.selected_model)
    => /\ genOut.raised = "no"
       /\ genOut.forecasts = genIn.horizon
       /\ genOut.diagnostics.fallback_used
       /\ genOut.audit.fallback_used

\* C26: for every registered strategy, every history of one row or more and
\* every horizon h >= 1, also when the strategy gives way to its fallback,
\* forecast returns h points whose periods are the h months that follow the
\* last row of the history, each with predicted_qty, lower_bound and
\* upper_bound >= 0; the strategies entered form a chain without repetition
\* along arima/prophet/lstm -> exp_smoothing -> moving_average and
\* seasonal_naive -> ewma, and moving_average and ewma enter no other one.
C26_ForecastShapeAndSign ==
  genOut # NoGenOut =>
    LET points == genOut.result.points
        chain == genOut.result.chain
        last == ds(genIn.df, Len(genIn.df.y))
    IN /\ genOut.raised = "no"
       /\ Len(points) = genIn.horizon
       /\ \A i \in 1..Len(points) :
            /\ points[i].period.month \in 1..12
            /\ MonthIndex(points[i].period) = MonthIndex(last) + i
            /\ points[i].predicted_qty >= 0
            /\ points[i].lower_bound >= 0
            /\ points[i].upper_bound >= 0
       /\ chain[1] = genIn.strategy
       /\ \A a, b \in 1..Len(chain) : chain[a] = chain[b] => a = b
       /\ \A a \in 1..(Len(chain) - 1) :
            \/ chain[a] \in {"arima", "prophet", "lstm"} /\ chain[a + 1] = "exp_smoothing"
            \/ chain[a] = "exp_smoothing" /\ chain[a + 1] = "moving_average"
            \/ chain[a] = "seasonal_naive" /\ chain[a + 1] = "ewma"

\* ------------------------------------------------------------------------
\* Claims about the backtests
\* ------------------------------------------------------------------------

\* C27: in _run_backtests every evaluation of a model at split s trains on
\* exactly the rows at positions < s and is scored against the row at
\* position s; s ranges over max(min_history, n - 6) .. n - 1 with
\* min_history = max(3, min_data_months); so the prediction is the same for
\* every history that agrees on the rows before s, whatever the row at s and
\* the later ones hold.
C27_TrainBeforeSplit ==
  genOut # NoGenOut =>
    LET y == genIn.df.y
        n == Len(y)
        evs == genOut.evaluations
        Splits(model_id) == {evs[k].split : k \in {j \in 1..Len(evs) : evs[j].model_type = model_id}}
        First(model_id) == Max(Max(3, min_data_months(model_id)), n - 6)
    IN /\ \A k \in 1..Len(evs) :
            /\ Len(evs[k].train.y) = evs[k].split
            /\ \A i \in 1..evs[k].split : evs[k].train.y[i] = y[i]
            /\ evs[k].actual = 100 * y[evs[k].split + 1]
            /\ \A kind \in HistoryShapes :
                 LET other == [first |-> genIn.df.first, y |-> Shape(kind, n)]
                 IN (\A i \in 1..evs[k].split : other.y[i] = y[i])
                      => Evaluation(evs[k].model_type, other, evs[k].split, genIn.lib).pred = evs[k].pred
       /\ \A model_id \in RegisteredModels :
            Splits(model_id) = IF n > Max(3, min_data_months(model_id)) THEN First(model_id)..(n - 1) ELSE {}

\* A 24-month history whose last month differs from another history that is
\* the same before it: six splits for moving_average, and the evaluation at
\* the last split has a non-zero error.
C27_Witness ==
  /\ genOut # NoGenOut
  /\ Len(genIn.df.y) = 24
  /\ genIn.df.y = Shape("decline", 24)
  /\ \E k \in 1..Len(genOut.evaluations) :
       /\ genOut.evaluations[k].model_type = "moving_average"
       /\ genOut.evaluations[k].split = 23
       /\ genOut.evaluations[k].abs_err > 0
  /\ Cardinality({k \in 1..Len(genOut.evaluations) : genOut.evaluations[k].model_type = "moving_average"}) = 6
  /\ Cardinality({k \in 1..Len(genOut.evaluations) : genOut.evaluations[k].model_type = "lstm"}) = 6
  /\ \A k \in 1..Len(genOut.evaluations) : genOut.evaluations[k].model_type # "prophet"

\* C28: _run_backtests returns at most one row per registered model, in
\* non-decreasing order of score (mape + 0.25 * wape, as stored); a model has a row
\* exactly when n > max(3, min_data_months), and then period_count >= 1; and
\* the default model is the model of the first row when there is one.
C28_RankedMetrics ==
  genOut # NoGenOut =>
    LET rows == genOut.candidate_metrics
        n == Len(genIn.df.y)
    IN /\ \A a, b \in 1..Len(rows) : rows[a].model_type = rows[b].model_type => a = b
       /\ \A a \in 1..Len(rows) :
            /\ rows[a].model_type \in RegisteredModels
            /\ rows[a].period_count >= 1
       /\ \A a \in 1..(Len(rows) - 1) : rows[a].score <= rows[a + 1].score
       /\ \A model_id \in RegisteredModels :
            (\E a \in 1..Len(rows) : rows[a].model_type = model_id) <=> n > Max(3, min_data_months(model_id))
       /\ rows # <<>> => genOut.default_model = rows[1].model_type

\* A 25-month history on which all seven models are ranked, the scores are
\* not all equal, and the first row is not the first model of the registry.
C28_Witness ==
  /\ genOut # NoGenOut
  /\ Len(genOut.candidate_metrics) = 7
  /\ genOut.candidate_metrics[1].score < genOut.candidate_metrics[7].score
  /\ genOut.candidate_metrics[1].model_type # genIn.model_ids[1]
  /\ genOut.default_model = genOut.candidate_metrics[1].model_type

\* ------------------------------------------------------------------------
\* Claims about the worker pool
\* ------------------------------------------------------------------------

====
